---- MODULE Spec2Model ----
(***************************************************************************)
(* MHO hospital-operations assistant: the two-phase delegation protocol of *)
(* services/agentService.ts (orchestrateRequest, executeAgentTask) and the *)
(* turn controller of App.tsx (handleSend, addAuditLog) with the Sidebar.   *)
(*                                                                         *)
(* Conventions.  A JavaScript value that may be undefined is a record      *)
(* Undefined or Some(v).  A string the code only compares or copies is a   *)
(* TLA+ string; the identifier and docType positions, which the code never *)
(* validates, use the string UndefinedStr for a missing property.  A text   *)
(* the code builds or tests for emptiness is a sequence of fragments, the  *)
(* empty string being << >> and concatenation \o.                          *)
(***************************************************************************)
EXTENDS Naturals, Sequences, FiniteSets

\* ------------------------------------------------------------------ bounds
MaxCalls == 2
MaxChunks == 2
MaxTurns == 2

\* ------------------------------------------------------- JavaScript values
Undefined == [def |-> FALSE]
Some(v) == [def |-> TRUE, v |-> v]
UndefinedStr == "<undefined>"

\* String(v) as a template literal renders it: undefined prints as "undefined".
ToStr(s) == IF s = UndefinedStr THEN "undefined" ELSE s

\* Mutant: only undefined counts (?? in place of ||).
Falsy_UndefinedOnly(t) == ~t.def

\* !text for an optional text: undefined and "" are both falsy.
Falsy(t) == ~t.def \/ t.v = << >>

\* All sequences over S of length at most n.
SeqsUpTo(S, n) == UNION {[1..k -> S] : k \in 0..n}

\* ------------------------------------------------------------------- types
ORCHESTRATOR == "Central Manager"
ADMISSION == "PatientAdmissionAgent"
SCHEDULING == "AppointmentSchedulingAgent"
PHARMACY == "PharmacyManagementAgent"
BILLING == "BillingAndFinanceAgent"

Specialists == {ADMISSION, SCHEDULING, PHARMACY, BILLING}
AgentType == {ORCHESTRATOR} \cup Specialists

DocTypes == {"INVOICE", "PRESCRIPTION", "ADMISSION_FORM", "MEMO"}

\* --------------------------------------------------------- tool definitions
GenerateDocumentName == "generate_document"
GenerateDocumentTool == [functionDeclarations |-> <<GenerateDocumentName>>]
GoogleSearchTool == [googleSearch |-> TRUE]

\* ------------------------------------------------- the generation backend
\* What the backend may put where the code reads an agent identifier: the four
\* specialists, the router's own identifier, an unknown name, or nothing.
BackendAgents == AgentType \cup {"NurseAgent", UndefinedStr}
BackendReasonings == {"Billing matter", UndefinedStr}

\* The router's response text, by what JSON.parse makes of it.
RouterTexts ==
    {[syntax |-> "empty"], [syntax |-> "invalid"], [syntax |-> "null"], [syntax |-> "scalar"]}
    \cup [syntax : {"object"}, agent : BackendAgents, reasoning : BackendReasonings]

RouterBackends ==
    {[raises |-> TRUE]}
    \cup [raises : {FALSE}, text : {Undefined} \cup {Some(t) : t \in RouterTexts}]

\* JSON.parse: throws on text that is not JSON, else the decoded value.
JSONParse(text) ==
    IF text.syntax \in {"empty", "invalid"}
    THEN [throws |-> TRUE]
    ELSE [throws |-> FALSE, value |-> text]

\* result.agent / result.reasoning: a TypeError on null, undefined on a scalar.
PropThrows(value) == value.syntax = "null"
Prop(value, name) ==
    IF value.syntax = "object" THEN value[name] ELSE UndefinedStr

FallbackReasoning == "Fallback due to error."
FallbackDecision == [agent |-> ADMISSION, reasoning |-> FallbackReasoning]

\* Mutant: the catch answers with the router's own identifier.
orchestrateRequest_RouterDefault(userQuery, backend) ==
    IF backend.raises \/ ~backend.text.def \/ backend.text.v.syntax = "empty"
    THEN [agent |-> ORCHESTRATOR, reasoning |-> FallbackReasoning]
    ELSE LET parsed == JSONParse(backend.text.v) IN
         IF parsed.throws \/ PropThrows(parsed.value)
         THEN [agent |-> ORCHESTRATOR, reasoning |-> FallbackReasoning]
         ELSE [agent |-> Prop(parsed.value, "agent"),
               reasoning |-> Prop(parsed.value, "reasoning")]

\* PHASE 1.  The returned decision; every throw inside the try ends in the catch.
orchestrateRequest(userQuery, backend) ==
    IF backend.raises THEN FallbackDecision
    ELSE IF ~backend.text.def \/ backend.text.v.syntax = "empty" THEN FallbackDecision
    ELSE LET parsed == JSONParse(backend.text.v) IN
         IF parsed.throws THEN FallbackDecision
         ELSE IF PropThrows(parsed.value) THEN FallbackDecision
         ELSE [agent |-> Prop(parsed.value, "agent"),
               reasoning |-> Prop(parsed.value, "reasoning")]

\* ---------------------------------------------------------------- PHASE 2
\* Mutant: the scheduling agent is also given the document tool.
ToolsFor_SchedulingDocs(agent) ==
    CASE agent = ADMISSION -> <<GenerateDocumentTool>>
      [] agent = SCHEDULING -> <<GoogleSearchTool, GenerateDocumentTool>>
      [] agent = PHARMACY -> <<GoogleSearchTool, GenerateDocumentTool>>
      [] agent = BILLING -> <<GenerateDocumentTool>>
      [] OTHER -> << >>

\* The persona/tool switch; an identifier that matches no case keeps tools = [].
ToolsFor(agent) ==
    CASE agent = ADMISSION -> <<GenerateDocumentTool>>
      [] agent = SCHEDULING -> <<GoogleSearchTool>>
      [] agent = PHARMACY -> <<GoogleSearchTool, GenerateDocumentTool>>
      [] agent = BILLING -> <<GenerateDocumentTool>>
      [] OTHER -> << >>

\* The personas, each cut to its first sentence.
SystemInstructionFor(agent) ==
    CASE agent = ADMISSION -> "Role: PatientAdmissionAgent."
      [] agent = SCHEDULING -> "Role: AppointmentSchedulingAgent."
      [] agent = PHARMACY -> "Role: PharmacyManagementAgent."
      [] agent = BILLING -> "Role: BillingAndFinanceAgent (RCM Focus)."
      [] OTHER -> "You are a helpful hospital assistant."

\* The single generateContent request of executeAgentTask.
GenerationRequest(agent, userQuery, history) ==
    [contents |-> <<"Context: ">> \o history \o <<"\n\nCurrent Request: ">> \o userQuery,
     systemInstruction |-> SystemInstructionFor(agent),
     tools |-> ToolsFor(agent)]

\* What the backend may send back to the executor.
BackendDocTypes == DocTypes \cup {"RECEIPT", UndefinedStr}
BackendTitles == {"T", "U"}
BackendFields == {[Amount |-> "100"], [Drug |-> "X", Dose |-> "5mg"]}
BackendNotes == {"C"}
DocArgs == [docType : BackendDocTypes, title : BackendTitles,
            fields : BackendFields, complianceNote : BackendNotes]

\* A function call of the response; args is optional in the SDK's FunctionCall.
FirstCalls ==
    [name : {GenerateDocumentName}, args : {Undefined} \cup {Some(a) : a \in DocArgs}]
    \cup {[name |-> "lookup_patient", args |-> Undefined]}
LaterCalls ==
    {[name |-> GenerateDocumentName,
      args |-> Some([docType |-> "MEMO", title |-> "U",
                     fields |-> [Amount |-> "100"], complianceNote |-> "C"])],
     [name |-> "lookup_patient", args |-> Undefined]}
CallLists ==
    {<<c>> \o rest : c \in FirstCalls, rest \in SeqsUpTo(LaterCalls, MaxCalls - 1)}
    \cup {<< >>}

Webs == {[uri |-> "a", title |-> "A"], [uri |-> "b", title |-> "B"]}
Chunks == {[web |-> Undefined]} \cup {[web |-> Some(w)] : w \in Webs}

ReplyTexts == {<< >>, <<"Your appointment is confirmed.">>}

Responses ==
    [text : {Undefined} \cup {Some(t) : t \in ReplyTexts},
     functionCalls : {Undefined} \cup {Some(c) : c \in CallLists},
     groundingChunks : {Undefined} \cup {Some(g) : g \in SeqsUpTo(Chunks, MaxChunks)}]

ExecBackends == {[raises |-> TRUE]} \cup [raises : {FALSE}, response : Responses]

\* Mutant: the kept references come out newest first.
RECURSIVE FilterWeb_Reversed(_)
FilterWeb_Reversed(webs) ==
    IF webs = << >> THEN << >>
    ELSE IF Head(webs).def THEN FilterWeb_Reversed(Tail(webs)) \o <<Head(webs)>>
    ELSE FilterWeb_Reversed(Tail(webs))

\* seq.filter(keep), order kept.
RECURSIVE FilterWeb(_)
FilterWeb(webs) ==
    IF webs = << >> THEN << >>
    ELSE IF Head(webs).def THEN <<Head(webs)>> \o FilterWeb(Tail(webs))
    ELSE FilterWeb(Tail(webs))

\* groundingChunks.map(chunk => chunk.web).filter(web => web)
\*                .map(web => ({uri: web.uri, title: web.title}))
ExtractSources(chunks) ==
    LET webs == [i \in 1..Len(chunks) |-> chunks[i].web]
        kept == FilterWeb(webs)
    IN  [i \in 1..Len(kept) |-> [uri |-> kept[i].v.uri, title |-> kept[i].v.title]]

ConfirmationText(docType) ==
    <<"I have generated the ", ToStr(docType),
      " document for you. Please verify the details below.">>
ProcessedText == <<"Processed request.">>
DocumentGeneratedText == <<"Document generated.">>
SystemErrorText ==
    <<"I encountered a system error processing your request. Please contact IT support.">>

\* Mutant: the catch returns an empty source list instead of none.
ExecFailure_EmptySources ==
    [text |-> SystemErrorText, document |-> Undefined, groundingSources |-> Some(<< >>)]

ExecFailure == [text |-> SystemErrorText, document |-> Undefined, groundingSources |-> Undefined]

\* Mutant: title and footer taken from each other's argument.
DocumentFrom_Swapped(args) ==
    [type |-> args.docType, title |-> args.complianceNote,
     content |-> args.fields, footer |-> args.title]

\* The document built from the first call's arguments.
DocumentFrom(args) ==
    [type |-> args.docType, title |-> args.title,
     content |-> args.fields, footer |-> args.complianceNote]

\* Mutant: the document is built from the first generate_document call found at
\* any position of the list.
InterpretResponse_AnyCall(response) ==
    LET sources == IF response.groundingChunks.def
                   THEN ExtractSources(response.groundingChunks.v) ELSE << >>
        calls == response.functionCalls
        hasCalls == calls.def /\ Len(calls.v) > 0
        docIdx == IF calls.def
                  THEN {i \in 1..Len(calls.v) : calls.v[i].name = GenerateDocumentName}
                  ELSE {}
        isDoc == docIdx # {}
        first == CHOOSE i \in docIdx : \A j \in docIdx : i <= j
    IN  IF isDoc /\ ~calls.v[first].args.def THEN ExecFailure
        ELSE LET generatedDoc == IF isDoc THEN Some(DocumentFrom(calls.v[first].args.v))
                                 ELSE Undefined
                 text1 == IF isDoc THEN ConfirmationText(calls.v[first].args.v.docType)
                          ELSE IF hasCalls THEN << >>
                          ELSE IF Falsy(response.text) THEN ProcessedText
                          ELSE response.text.v
                 outputText == IF text1 = << >> /\ generatedDoc.def
                               THEN DocumentGeneratedText ELSE text1
             IN  [text |-> outputText, document |-> generatedDoc,
                  groundingSources |-> Some(sources)]

\* The try block after the response arrived.  Reading a property of undefined
\* args throws, and the throw ends in the catch like a failed call.
InterpretResponse(response) ==
    LET sources == IF response.groundingChunks.def
                   THEN ExtractSources(response.groundingChunks.v) ELSE << >>
        calls == response.functionCalls
        hasCalls == calls.def /\ Len(calls.v) > 0
        isDoc == hasCalls /\ calls.v[1].name = GenerateDocumentName
    IN  IF isDoc /\ ~calls.v[1].args.def THEN ExecFailure
        ELSE LET generatedDoc == IF isDoc THEN Some(DocumentFrom(calls.v[1].args.v))
                                 ELSE Undefined
                 text1 == IF isDoc THEN ConfirmationText(calls.v[1].args.v.docType)
                          ELSE IF hasCalls THEN << >>
                          ELSE IF Falsy(response.text) THEN ProcessedText
                          ELSE response.text.v
                 outputText == IF text1 = << >> /\ generatedDoc.def
                               THEN DocumentGeneratedText ELSE text1
             IN  [text |-> outputText, document |-> generatedDoc,
                  groundingSources |-> Some(sources)]

executeAgentTask(agent, userQuery, history, backend) ==
    IF backend.raises THEN ExecFailure ELSE InterpretResponse(backend.response)

\* ------------------------------------------------------------ App state
VARIABLES
    messages,       \* useState<ChatMessage[]>
    input,          \* useState('')
    isLoading,      \* useState(false)
    currentAgent,   \* useState<AgentType>(ORCHESTRATOR)
    auditLogs,      \* useState<AuditLogEntry[]>([])
    isSidebarOpen,  \* useState(false)
    turns,          \* the handleSend invocations: where each stands, what it captured,
                    \* the backend calls it issued and what the backend did
    probe           \* a direct call of one of the two service functions

appVars == <<messages, input, isLoading, currentAgent, auditLogs, isSidebarOpen, turns>>
vars == <<messages, input, isLoading, currentAgent, auditLogs, isSidebarOpen, turns, probe>>

WelcomeText ==
    <<"Welcome to MHO (Manage Hospital Operations). I am the Central Manager. How can I assist you today? (e.g., 'Check my insurance claim', 'Schedule a cardiology appointment')">>
WelcomeMessage ==
    [role |-> "model", sender |-> ORCHESTRATOR, text |-> WelcomeText,
     documentData |-> Undefined, groundingSources |-> Undefined]

\* What the user may type: nothing, blanks only, a request with a leading blank.
Inputs == {<< >>, <<" ", " ">>, <<" ", "x">>}

IsSpace(c) == c = " "

\* String.prototype.trim
RECURSIVE TrimStart(_)
TrimStart(s) ==
    IF s = << >> THEN << >>
    ELSE IF IsSpace(Head(s)) THEN TrimStart(Tail(s)) ELSE s
RECURSIVE TrimEnd(_)
TrimEnd(s) ==
    IF s = << >> THEN << >>
    ELSE IF IsSpace(s[Len(s)]) THEN TrimEnd(SubSeq(s, 1, Len(s) - 1)) ELSE s
Trim(s) == TrimEnd(TrimStart(s))

\* Mutant: the new entry replaces the log instead of extending it.
addAuditLog_Lossy(logs, agent, action) ==
    <<[agent |-> agent, action |-> action, status |-> "SUCCESS"]>>

\* Mutant: the entry is appended as not yet settled.
addAuditLog_Pending(logs, agent, action) ==
    Append(logs, [agent |-> agent, action |-> action, status |-> "PENDING"])

\* addAuditLog: the entry it appends (id and timestamp left out).
addAuditLog(logs, agent, action) ==
    Append(logs, [agent |-> agent, action |-> action, status |-> "SUCCESS"])

\* Mutant: the transcript starts after the oldest message.
RECURSIVE HistoryContext_DropsOldest(_)
HistoryContext_DropsOldest(msgs) ==
    IF Len(msgs) <= 1 THEN << >>
    ELSE LET line == <<msgs[2].sender, ": ">> \o msgs[2].text IN
         IF Len(msgs) = 2 THEN line
         ELSE line \o <<"\n">> \o HistoryContext_DropsOldest(Tail(msgs))

\* messages.map(m => `${m.sender}: ${m.text}`).join('\n')
RECURSIVE HistoryContext(_)
HistoryContext(msgs) ==
    IF msgs = << >> THEN << >>
    ELSE LET line == <<Head(msgs).sender, ": ">> \o Head(msgs).text IN
         IF Len(msgs) = 1 THEN line
         ELSE line \o <<"\n">> \o HistoryContext(Tail(msgs))

\* The backend behaviours a session is run against: one per path of each phase.
SessionRouterBackends ==
    {[raises |-> TRUE],
     [raises |-> FALSE, text |-> Some([syntax |-> "object", agent |-> BILLING,
                                       reasoning |-> "Billing matter"])],
     [raises |-> FALSE, text |-> Some([syntax |-> "object", agent |-> ORCHESTRATOR,
                                       reasoning |-> "Billing matter"])],
     [raises |-> FALSE, text |-> Some([syntax |-> "scalar"])]}

InvoiceCall ==
    [name |-> GenerateDocumentName,
     args |-> Some([docType |-> "INVOICE", title |-> "T",
                    fields |-> [Amount |-> "100"], complianceNote |-> "C"])]
ReceiptCall ==
    [name |-> GenerateDocumentName,
     args |-> Some([docType |-> "RECEIPT", title |-> "T",
                    fields |-> [Amount |-> "100"], complianceNote |-> "C"])]
LookupCall == [name |-> "lookup_patient", args |-> Undefined]

SessionExecBackends ==
    {[raises |-> TRUE],
     [raises |-> FALSE,
      response |-> [text |-> Some(<<"Your appointment is confirmed.">>),
                    functionCalls |-> Undefined,
                    groundingChunks |-> Some(<<[web |-> Some([uri |-> "a", title |-> "A"])],
                                               [web |-> Undefined]>>)]],
     [raises |-> FALSE,
      response |-> [text |-> Undefined, functionCalls |-> Some(<<InvoiceCall>>),
                    groundingChunks |-> Undefined]],
     [raises |-> FALSE,
      response |-> [text |-> Undefined, functionCalls |-> Some(<<ReceiptCall>>),
                    groundingChunks |-> Undefined]],
     [raises |-> FALSE,
      response |-> [text |-> Some(<<"Looking that up.">>),
                    functionCalls |-> Some(<<LookupCall, InvoiceCall>>),
                    groundingChunks |-> Undefined]]}

Init ==
    /\ messages = <<WelcomeMessage>>
    /\ input = << >>
    /\ isLoading = FALSE
    /\ currentAgent = ORCHESTRATOR
    /\ auditLogs = << >>
    /\ isSidebarOpen = FALSE
    /\ turns = << >>
    /\ probe = [op |-> "none"]

\* onChange of the input box, which is disabled while a turn is in flight.
setInput(v) ==
    /\ ~isLoading
    /\ input' = v
    /\ UNCHANGED <<messages, isLoading, currentAgent, auditLogs, isSidebarOpen, turns, probe>>

\* The guard of handleSend: if (!input.trim() || isLoading) return;
SendAccepted == Trim(input) # << >> /\ ~isLoading

\* Mutant: handleSend without setIsLoading(true).
handleSend_NoFlag ==
    /\ SendAccepted
    /\ Len(turns) < MaxTurns
    /\ messages' = Append(messages,
                          [role |-> "user", sender |-> "User", text |-> input,
                           documentData |-> Undefined, groundingSources |-> Undefined])
    /\ input' = << >>
    /\ currentAgent' = ORCHESTRATOR
    /\ turns' = Append(turns, [pc |-> "classify", text |-> input, messages |-> messages,
                               issued |-> <<"classify">>, routerBackend |-> Undefined,
                               delegation |-> Undefined, call |-> Undefined,
                               execBackend |-> Undefined, response |-> Undefined,
                               error |-> FALSE])
    /\ UNCHANGED <<isLoading, auditLogs, isSidebarOpen, probe>>

\* Mutant: the user message is put in front of the sequence.
handleSend_Prepend ==
    /\ SendAccepted
    /\ Len(turns) < MaxTurns
    /\ messages' = <<[role |-> "user", sender |-> "User", text |-> input,
                      documentData |-> Undefined, groundingSources |-> Undefined]>>
                       \o messages
    /\ input' = << >>
    /\ isLoading' = TRUE
    /\ currentAgent' = ORCHESTRATOR
    /\ turns' = Append(turns, [pc |-> "classify", text |-> input, messages |-> messages,
                               issued |-> <<"classify">>, routerBackend |-> Undefined,
                               delegation |-> Undefined, call |-> Undefined,
                               execBackend |-> Undefined, response |-> Undefined,
                               error |-> FALSE])
    /\ UNCHANGED <<auditLogs, isSidebarOpen, probe>>

\* handleSend up to its first await: the user message, the cleared input, the
\* in-flight flag, the indicator reset, and the pending orchestrateRequest call.
handleSend ==
    /\ SendAccepted
    /\ Len(turns) < MaxTurns
    /\ messages' = Append(messages,
                          [role |-> "user", sender |-> "User", text |-> input,
                           documentData |-> Undefined, groundingSources |-> Undefined])
    /\ input' = << >>
    /\ isLoading' = TRUE
    /\ currentAgent' = ORCHESTRATOR
    /\ turns' = Append(turns, [pc |-> "classify", text |-> input, messages |-> messages,
                               issued |-> <<"classify">>, routerBackend |-> Undefined,
                               delegation |-> Undefined, call |-> Undefined,
                               execBackend |-> Undefined, response |-> Undefined,
                               error |-> FALSE])
    /\ UNCHANGED <<auditLogs, isSidebarOpen, probe>>

\* Mutant: the guard tests input instead of input.trim(), so blanks are sent.
handleSendRejected_SendsBlank ==
    /\ ~SendAccepted
    /\ IF input # << >> /\ ~isLoading /\ Len(turns) < MaxTurns
       THEN /\ messages' = Append(messages,
                                  [role |-> "user", sender |-> "User", text |-> input,
                                   documentData |-> Undefined, groundingSources |-> Undefined])
            /\ input' = << >>
            /\ isLoading' = TRUE
            /\ currentAgent' = ORCHESTRATOR
            /\ turns' = Append(turns, [pc |-> "classify", text |-> input, messages |-> messages,
                                       issued |-> <<"classify">>, routerBackend |-> Undefined,
                                       delegation |-> Undefined, call |-> Undefined,
                                       execBackend |-> Undefined, response |-> Undefined,
                                       error |-> FALSE])
            /\ UNCHANGED <<auditLogs, isSidebarOpen, probe>>
       ELSE UNCHANGED vars

\* handleSend returning at its guard.
handleSendRejected ==
    /\ ~SendAccepted
    /\ UNCHANGED vars

\* Mutant: a raised classify call is issued once more before the fallback.
OrchestrateReturns_Retry(k, backend) ==
    /\ turns[k].pc = "classify"
    /\ IF backend.raises /\ Len(turns[k].issued) < 2
       THEN /\ turns' = [turns EXCEPT ![k].issued = Append(@, "classify")]
            /\ UNCHANGED auditLogs
       ELSE LET delegation == orchestrateRequest(turns[k].text, backend) IN
            /\ auditLogs' = addAuditLog(auditLogs, ORCHESTRATOR,
                                        <<"Delegated to ", ToStr(delegation.agent)>>)
            /\ turns' = [turns EXCEPT ![k].pc = "delay", ![k].routerBackend = Some(backend),
                                      ![k].delegation = Some(delegation)]
    /\ UNCHANGED <<messages, input, isLoading, currentAgent, isSidebarOpen, probe>>

\* orchestrateRequest resolves: the delegation entry, then the 600 ms delay.
OrchestrateReturns(k, backend) ==
    /\ turns[k].pc = "classify"
    /\ LET delegation == orchestrateRequest(turns[k].text, backend) IN
       /\ auditLogs' = addAuditLog(auditLogs, ORCHESTRATOR,
                                   <<"Delegated to ", ToStr(delegation.agent)>>)
       /\ turns' = [turns EXCEPT ![k].pc = "delay", ![k].routerBackend = Some(backend),
                                 ![k].delegation = Some(delegation)]
    /\ UNCHANGED <<messages, input, isLoading, currentAgent, isSidebarOpen, probe>>

\* Mutant: the delay elapses without setCurrentAgent(delegation.agent).
DelayElapses_KeepsIndicator(k) ==
    /\ turns[k].pc = "delay"
    /\ turns' = [turns EXCEPT ![k].pc = "execute",
                              ![k].issued = Append(@, "execute"),
                              ![k].call = Some([agent |-> turns[k].delegation.v.agent,
                                                userQuery |-> turns[k].text,
                                                history |-> HistoryContext(turns[k].messages)])]
    /\ UNCHANGED <<messages, input, isLoading, currentAgent, auditLogs, isSidebarOpen, probe>>

\* Mutant: executeAgentTask is called with the agent the indicator shows.
DelayElapses_UsesIndicator(k) ==
    /\ turns[k].pc = "delay"
    /\ currentAgent' = turns[k].delegation.v.agent
    /\ turns' = [turns EXCEPT ![k].pc = "execute",
                              ![k].issued = Append(@, "execute"),
                              ![k].call = Some([agent |-> currentAgent,
                                                userQuery |-> turns[k].text,
                                                history |-> HistoryContext(turns[k].messages)])]
    /\ UNCHANGED <<messages, input, isLoading, auditLogs, isSidebarOpen, probe>>

\* The delay elapses: the indicator switches and executeAgentTask is called with
\* the history rendered from the messages this handleSend closed over.
DelayElapses(k) ==
    /\ turns[k].pc = "delay"
    /\ currentAgent' = turns[k].delegation.v.agent
    /\ turns' = [turns EXCEPT ![k].pc = "execute",
                              ![k].issued = Append(@, "execute"),
                              ![k].call = Some([agent |-> turns[k].delegation.v.agent,
                                                userQuery |-> turns[k].text,
                                                history |-> HistoryContext(turns[k].messages)])]
    /\ UNCHANGED <<messages, input, isLoading, auditLogs, isSidebarOpen, probe>>

\* Mutant: the turn ends without the finally's setIsLoading(false).
ExecuteReturns_NoFinally(k, backend) ==
    /\ turns[k].pc = "execute"
    /\ LET c == turns[k].call.v
           response == executeAgentTask(c.agent, c.userQuery, c.history, backend)
           agent == turns[k].delegation.v.agent
       IN
       /\ messages' = Append(messages,
                             [role |-> "model", sender |-> agent, text |-> response.text,
                              documentData |-> response.document,
                              groundingSources |-> response.groundingSources])
       /\ auditLogs' = addAuditLog(auditLogs, agent,
                                   IF response.document.def
                                   THEN <<"Generated ", ToStr(response.document.v.type)>>
                                   ELSE <<"Responded to query">>)
       /\ turns' = [turns EXCEPT ![k].pc = "done", ![k].execBackend = Some(backend),
                                 ![k].response = Some(response)]
    /\ UNCHANGED <<input, isLoading, currentAgent, isSidebarOpen, probe>>

\* Mutant: the execution entry reads 'Responded to query' whatever the reply carries.
ExecuteReturns_AlwaysResponded(k, backend) ==
    /\ turns[k].pc = "execute"
    /\ LET c == turns[k].call.v
           response == executeAgentTask(c.agent, c.userQuery, c.history, backend)
           agent == turns[k].delegation.v.agent
       IN
       /\ messages' = Append(messages,
                             [role |-> "model", sender |-> agent, text |-> response.text,
                              documentData |-> response.document,
                              groundingSources |-> response.groundingSources])
       /\ auditLogs' = addAuditLog(auditLogs, agent, <<"Responded to query">>)
       /\ turns' = [turns EXCEPT ![k].pc = "done", ![k].execBackend = Some(backend),
                                 ![k].response = Some(response)]
    /\ isLoading' = FALSE
    /\ UNCHANGED <<input, currentAgent, isSidebarOpen, probe>>

\* executeAgentTask resolves: the agent message, the execution entry, the finally.
\* Neither service function can reject (each wraps its backend call and its
\* interpretation in a try/catch) and nothing else in handleSend's try throws, so
\* the catch of handleSend is never entered and has no action here.
ExecuteReturns(k, backend) ==
    /\ turns[k].pc = "execute"
    /\ LET c == turns[k].call.v
           response == executeAgentTask(c.agent, c.userQuery, c.history, backend)
           agent == turns[k].delegation.v.agent
       IN
       /\ messages' = Append(messages,
                             [role |-> "model", sender |-> agent, text |-> response.text,
                              documentData |-> response.document,
                              groundingSources |-> response.groundingSources])
       /\ auditLogs' = addAuditLog(auditLogs, agent,
                                   IF response.document.def
                                   THEN <<"Generated ", ToStr(response.document.v.type)>>
                                   ELSE <<"Responded to query">>)
       /\ turns' = [turns EXCEPT ![k].pc = "done", ![k].execBackend = Some(backend),
                                 ![k].response = Some(response)]
    /\ isLoading' = FALSE
    /\ UNCHANGED <<input, currentAgent, isSidebarOpen, probe>>

\* A click on an agent of the sidebar; on a narrow window it also closes it.
onSelectAgent(agent, narrow) ==
    /\ currentAgent' = agent
    /\ isSidebarOpen' = IF narrow THEN FALSE ELSE isSidebarOpen
    /\ UNCHANGED <<messages, input, isLoading, auditLogs, turns, probe>>

\* The hamburger button of the mobile header.
openSidebar ==
    /\ isSidebarOpen' = TRUE
    /\ UNCHANGED <<messages, input, isLoading, currentAgent, auditLogs, turns, probe>>

\* The overlay or the close button of the sidebar.
onClose ==
    /\ isSidebarOpen' = FALSE
    /\ UNCHANGED <<messages, input, isLoading, currentAgent, auditLogs, turns, probe>>

\* Array.prototype.reverse
Reverse(s) == [i \in 1..Len(s) |-> s[Len(s) + 1 - i]]

\* The list the sidebar shows: auditLogs.slice().reverse(), newest first.
AuditView(logs) == Reverse(logs)

\* Mutant: the sidebar reverses the state array itself (no slice()).
renderSidebar_InPlace ==
    /\ auditLogs' = Reverse(auditLogs)
    /\ UNCHANGED <<messages, input, isLoading, currentAgent, isSidebarOpen, turns, probe>>

\* The sidebar renders the log from a copy; the state array stays as it is.
renderSidebar ==
    /\ AuditView(auditLogs) = Reverse(auditLogs)
    /\ auditLogs' = auditLogs
    /\ UNCHANGED <<messages, input, isLoading, currentAgent, isSidebarOpen, turns, probe>>

Next ==
    \/ \E v \in Inputs : setInput(v)
    \/ handleSend
    \/ handleSendRejected
    \/ \E k \in 1..Len(turns), b \in SessionRouterBackends : OrchestrateReturns(k, b)
    \/ \E k \in 1..Len(turns) : DelayElapses(k)
    \/ \E k \in 1..Len(turns), b \in SessionExecBackends : ExecuteReturns(k, b)
    \/ \E a \in AgentType, narrow \in BOOLEAN : onSelectAgent(a, narrow)
    \/ openSidebar
    \/ onClose
    \/ renderSidebar

Spec == Init /\ [][Next]_vars

\* Spec with every pending backend call eventually returning or raising and the
\* 600 ms timer eventually firing.
SpecLive ==
    /\ Spec
    /\ WF_vars(\E k \in 1..Len(turns), b \in SessionRouterBackends : OrchestrateReturns(k, b))
    /\ WF_vars(\E k \in 1..Len(turns) : DelayElapses(k))
    /\ WF_vars(\E k \in 1..Len(turns), b \in SessionExecBackends : ExecuteReturns(k, b))

\* ------------------------------------- handleSend with services that may reject
GenericErrorText ==
    <<"I apologize, but I encountered a secure connection error. Please try again.">>

\* Mutant: the catch leaves the indicator where it was.
handleSendCatch_NoReset(k) ==
    /\ turns[k].pc \in {"classify", "execute"}
    /\ messages' = Append(messages,
                          [role |-> "model", sender |-> ORCHESTRATOR, text |-> GenericErrorText,
                           documentData |-> Undefined, groundingSources |-> Undefined])
    /\ isLoading' = FALSE
    /\ turns' = [turns EXCEPT ![k].pc = "done", ![k].error = TRUE]
    /\ UNCHANGED <<input, currentAgent, auditLogs, isSidebarOpen, probe>>

\* The catch and the finally of handleSend, entered when an awaited service call
\* rejects.  orchestrateRequest and executeAgentTask never reject, so Spec has no
\* such step; SpecFault runs handleSend against services that may.
handleSendCatch(k) ==
    /\ turns[k].pc \in {"classify", "execute"}
    /\ messages' = Append(messages,
                          [role |-> "model", sender |-> ORCHESTRATOR, text |-> GenericErrorText,
                           documentData |-> Undefined, groundingSources |-> Undefined])
    /\ currentAgent' = ORCHESTRATOR
    /\ isLoading' = FALSE
    /\ turns' = [turns EXCEPT ![k].pc = "done", ![k].error = TRUE]
    /\ UNCHANGED <<input, auditLogs, isSidebarOpen, probe>>

NextFault ==
    \/ Next
    \/ \E k \in 1..Len(turns) : handleSendCatch(k)

SpecFault == Init /\ [][NextFault]_vars

\* ------------------------------------------- the service functions, called directly
Queries == {<<"x">>, <<" ", "x">>}
Histories ==
    {HistoryContext(<<WelcomeMessage>>),
     HistoryContext(<<WelcomeMessage,
                      [role |-> "user", sender |-> "User", text |-> <<"x">>,
                       documentData |-> Undefined, groundingSources |-> Undefined]>>)}

ProbeInputs ==
    [op : {"classify"}, userQuery : Queries, backend : RouterBackends, out : {Undefined}]
    \cup [op : {"run"}, agent : BackendAgents, userQuery : Queries, history : Histories,
          backend : ExecBackends, request : {Undefined}, out : {Undefined}]

InitService ==
    /\ messages = <<WelcomeMessage>>
    /\ input = << >>
    /\ isLoading = FALSE
    /\ currentAgent = ORCHESTRATOR
    /\ auditLogs = << >>
    /\ isSidebarOpen = FALSE
    /\ turns = << >>
    /\ probe \in ProbeInputs

CallOrchestrateRequest ==
    /\ probe.op = "classify"
    /\ ~probe.out.def
    /\ probe' = [probe EXCEPT !.out = Some(orchestrateRequest(probe.userQuery, probe.backend))]
    /\ UNCHANGED appVars

CallExecuteAgentTask ==
    /\ probe.op = "run"
    /\ ~probe.out.def
    /\ probe' = [probe EXCEPT !.request = Some(GenerationRequest(probe.agent, probe.userQuery,
                                                                 probe.history)),
                              !.out = Some(executeAgentTask(probe.agent, probe.userQuery,
                                                            probe.history, probe.backend))]
    /\ UNCHANGED appVars

NextService == CallOrchestrateRequest \/ CallExecuteAgentTask

SpecService == InitService /\ [][NextService]_vars

\* ================================================================== claims
ClassifyDone == probe.op = "classify" /\ probe.out.def
RunDone == probe.op = "run" /\ probe.out.def
RunInterpreted == RunDone /\ ~probe.backend.raises

\* C1 (SpecService): whatever the backend does, orchestrateRequest returns one of
\* the four specialists, never the router, an unknown name or undefined.
C1_ClassifyReturnsSpecialist ==
    ClassifyDone => probe.out.v.agent \in Specialists

\* C2 (SpecService): executeAgentTask never returns an empty reply text.
C2_RunTextNonEmpty ==
    RunDone => probe.out.v.text # << >>

\* The first function call of the response is generate_document with arguments.
C3_DocumentCallWithArgs ==
    /\ RunInterpreted
    /\ probe.backend.response.functionCalls.def
    /\ Len(probe.backend.response.functionCalls.v) > 0
    /\ probe.backend.response.functionCalls.v[1].name = "generate_document"
    /\ probe.backend.response.functionCalls.v[1].args.def

\* C3 (SpecService): a first call generate_document(docType, title, fields,
\* complianceNote) yields the document {type: docType, title, content: fields,
\* footer: complianceNote} and the confirmation text naming docType, whatever
\* text the response also carries.
C3_DocumentFieldForField ==
    C3_DocumentCallWithArgs =>
        LET a == probe.backend.response.functionCalls.v[1].args.v IN
        /\ probe.out.v.document =
               Some([type |-> a.docType, title |-> a.title,
                     content |-> a.fields, footer |-> a.complianceNote])
        /\ probe.out.v.text =
               <<"I have generated the ",
                 IF a.docType = UndefinedStr THEN "undefined" ELSE a.docType,
                 " document for you. Please verify the details below.">>

\* C3 witness: an INVOICE call returned next to a non-empty plain text.
C3_Witness ==
    /\ C3_DocumentCallWithArgs
    /\ probe.backend.response.functionCalls.v[1].args.v.docType = "INVOICE"
    /\ probe.backend.response.functionCalls.v[1].args.v.title = "T"
    /\ probe.backend.response.text.def
    /\ probe.backend.response.text.v # << >>
    /\ probe.out.v.document.def

\* The router's backend call failed: it raised, or its text is missing, empty
\* or not JSON.
C4_ClassifyFailed ==
    /\ ClassifyDone
    /\ \/ probe.backend.raises
       \/ ~probe.backend.text.def
       \/ probe.backend.text.v.syntax \in {"empty", "invalid"}

\* C4 (SpecService): on such a failure orchestrateRequest returns (does not raise)
\* the admission agent with the rationale that marks the fallback.
C4_ClassifyFallsBack ==
    C4_ClassifyFailed =>
        probe.out.v = [agent |-> "PatientAdmissionAgent", reasoning |-> "Fallback due to error."]

\* C4 witness: the response text was not JSON and the fallback was returned.
C4_Witness ==
    /\ C4_ClassifyFailed
    /\ ~probe.backend.raises
    /\ probe.backend.text.def
    /\ probe.backend.text.v.syntax = "invalid"

\* C5 (SpecService): when the backend call raises, executeAgentTask returns, for
\* every agent identifier, the fixed apology with no document and no sources.
C5_RunFailsSoft ==
    (RunDone /\ probe.backend.raises) =>
        probe.out.v =
            [text |-> <<"I encountered a system error processing your request. Please contact IT support.">>,
             document |-> Undefined, groundingSources |-> Undefined]

\* C5 witness: the call raised for an identifier that is no specialist.
C5_Witness ==
    /\ RunDone
    /\ probe.backend.raises
    /\ probe.agent \notin Specialists

\* The (uri, title) pairs of the chunks that have a web reference, in order.
C6_WebPairs(chunks) ==
    LET withWeb == SelectSeq(chunks, LAMBDA c : c.web.def) IN
    [i \in 1..Len(withWeb) |-> [uri |-> withWeb[i].web.v.uri, title |-> withWeb[i].web.v.title]]

\* Grounding chunks rebuilt from a source sequence.
C6_Rebuild(sources) == [i \in 1..Len(sources) |-> [web |-> Some(sources[i])]]

C6_SourcesExact ==
    /\ probe.out.v.groundingSources.def
    /\ probe.out.v.groundingSources.v = C6_WebPairs(probe.backend.response.groundingChunks.v)
    /\ Len(probe.out.v.groundingSources.v) <= Len(probe.backend.response.groundingChunks.v)
    /\ ExtractSources(C6_Rebuild(probe.out.v.groundingSources.v))
           = probe.out.v.groundingSources.v

\* C6 as stated (SpecService): for any grounding chunks the returned sources are
\* exactly the web pairs in order, and extracting again from them changes nothing,
\* whether or not the response carries a tool call or text.
C6_SourcesExactAlways ==
    (RunInterpreted /\ probe.backend.response.groundingChunks.def) => C6_SourcesExact

\* The response is interpreted to the end: its first call is not a
\* generate_document call without arguments.
C6_NoThrow ==
    ~(/\ probe.backend.response.functionCalls.def
      /\ Len(probe.backend.response.functionCalls.v) > 0
      /\ probe.backend.response.functionCalls.v[1].name = "generate_document"
      /\ ~probe.backend.response.functionCalls.v[1].args.def)

\* C6 amended (SpecService): the same, for every response interpreted to the end;
\* a failed interpretation returns no sources.
C6_SourcesExactUnlessCaught ==
    (RunInterpreted /\ probe.backend.response.groundingChunks.def) =>
        IF C6_NoThrow THEN C6_SourcesExact ELSE ~probe.out.v.groundingSources.def

\* C6 witness: chunks [web a, no web, ...] next to a tool call, sources extracted.
C6_Witness ==
    /\ RunInterpreted
    /\ probe.backend.response.groundingChunks.def
    /\ Len(probe.backend.response.groundingChunks.v) >= 2
    /\ probe.backend.response.groundingChunks.v[1].web.def
    /\ ~probe.backend.response.groundingChunks.v[2].web.def
    /\ probe.backend.response.functionCalls.def
    /\ Len(probe.backend.response.functionCalls.v) > 0
    /\ C6_NoThrow
    /\ probe.out.v.groundingSources = Some(<<probe.backend.response.groundingChunks.v[1].web.v>>)

\* The turns that have not reached the end of handleSend.
InFlight == {k \in 1..Len(turns) : turns[k].pc # "done"}
NumDone == Cardinality({k \in 1..Len(turns) : turns[k].pc = "done"})

\* C7 (Spec): after N completed turns the audit sequence has length 2N, and its
\* entries 2k-1 and 2k are the delegation entry and the execution entry of turn k.
C7_AuditTwoPerTurn ==
    /\ InFlight = {} => Len(auditLogs) = 2 * NumDone
    /\ \A k \in 1..Len(turns) :
           turns[k].pc = "done" =>
               /\ Len(auditLogs) >= 2 * k
               /\ auditLogs[2 * k - 1].agent = "Central Manager"
               /\ auditLogs[2 * k - 1].action =
                      <<"Delegated to ", ToStr(turns[k].delegation.v.agent)>>
               /\ auditLogs[2 * k].agent = turns[k].delegation.v.agent
               /\ auditLogs[2 * k].action =
                      IF turns[k].response.v.document.def
                      THEN <<"Generated ", ToStr(turns[k].response.v.document.v.type)>>
                      ELSE <<"Responded to query">>

\* C7 witness: two completed turns, the first routed by the fallback, the second
\* ended by the executor's caught failure.
C7_Witness ==
    /\ Len(turns) >= 2
    /\ turns[1].pc = "done"
    /\ turns[2].pc = "done"
    /\ turns[1].delegation.v.reasoning = "Fallback due to error."
    /\ turns[1].response.v.document.def
    /\ ~turns[2].response.v.groundingSources.def
    /\ Len(auditLogs) = 4

\* C8 (Spec): at most one turn is in flight, it is the latest one, a send is
\* refused while it is pending, and the messages are the welcome message followed
\* by each turn's user message and, once the turn is done, its reply.
C8_OneTurnInFlight ==
    /\ Cardinality(InFlight) <= 1
    /\ \A k \in InFlight : k = Len(turns)
    /\ InFlight # {} => (isLoading /\ ~SendAccepted)
    /\ Len(messages) = 1 + Len(turns) + NumDone
    /\ \A k \in 1..Len(turns) :
           /\ messages[2 * k].role = "user"
           /\ messages[2 * k].text = turns[k].text
           /\ turns[k].pc = "done" => messages[2 * k + 1].role = "model"

\* C8 witness: a second turn is waiting for the executor after a first one ended.
C8_Witness ==
    /\ Len(turns) >= 2
    /\ turns[1].pc = "done"
    /\ turns[2].pc = "execute"
    /\ ~SendAccepted

\* C9 (Spec): the reply of every completed turn has as sender the identifier the
\* executor ran as, and that sender is not the router.  (The welcome message,
\* which App attributes to the router, is left aside: the replies alone decide.)
C9_ReplySenderNotRouter ==
    \A k \in 1..Len(turns) :
        turns[k].pc = "done" =>
            /\ messages[2 * k + 1].role = "model"
            /\ messages[2 * k + 1].sender = turns[k].call.v.agent
            /\ messages[2 * k + 1].sender # "Central Manager"

\* C10 (Spec): every document attached to a message has a type of the closed set.
C10_DocumentTypeClosed ==
    \A i \in 1..Len(messages) :
        messages[i].documentData.def =>
            messages[i].documentData.v.type \in {"INVOICE", "PRESCRIPTION", "ADMISSION_FORM", "MEMO"}

\* The step in which turn k ends (its executeAgentTask call resolved).
TurnEnds(k) == turns[k].pc = "execute" /\ turns'[k].pc = "done"
\* The step in which turn k leaves the delay and calls executeAgentTask.
TurnExecutes(k) == turns[k].pc = "delay" /\ turns'[k].pc = "execute"

\* C11 as stated (Spec): a turn in which a backend call raised ends with an
\* apologetic agent message appended and the indicator reset to the router.
C11_FailureApologizesAndResets ==
    [][\A k \in 1..Len(turns) :
           (TurnEnds(k) /\ (turns'[k].routerBackend.v.raises \/ turns'[k].execBackend.v.raises)) =>
               /\ messages'[Len(messages')].role = "model"
               /\ messages'[Len(messages')].text \in
                      {<<"I encountered a system error processing your request. Please contact IT support.">>,
                       <<"I apologize, but I encountered a secure connection error. Please try again.">>}
               /\ currentAgent' = "Central Manager"]_vars

\* C11 amended (Spec): a raise in the execute phase ends the turn with the
\* executor's fixed apology as the reply of the routed agent; a raise in the
\* classify phase makes the turn run as the admission agent, whose reply is
\* whatever the executor returns; the indicator is set to the routed agent when
\* the executor is called and is not reset when the turn ends.
C11_FailuresAbsorbed ==
    [][\A k \in 1..Len(turns) :
           /\ TurnExecutes(k) =>
                  /\ currentAgent' = turns[k].delegation.v.agent
                  /\ turns[k].routerBackend.v.raises =>
                         currentAgent' = "PatientAdmissionAgent"
           /\ TurnEnds(k) =>
                  /\ currentAgent' = currentAgent
                  /\ Len(messages') = Len(messages) + 1
                  /\ messages'[Len(messages')].role = "model"
                  /\ messages'[Len(messages')].sender = turns[k].delegation.v.agent
                  /\ turns'[k].routerBackend.v.raises =>
                         messages'[Len(messages')].sender = "PatientAdmissionAgent"
                  /\ turns'[k].execBackend.v.raises =>
                         /\ messages'[Len(messages')].text =
                                <<"I encountered a system error processing your request. Please contact IT support.">>
                         /\ ~messages'[Len(messages')].documentData.def]_vars

\* C11 witness: the router's call raised, the turn ran as the admission agent and
\* ended with an ordinary reply, the indicator showing the admission agent.
C11_Witness ==
    /\ Len(turns) >= 1
    /\ turns[1].pc = "done"
    /\ turns[1].routerBackend.v.raises
    /\ ~turns[1].execBackend.v.raises
    /\ messages[3].text = <<"Your appointment is confirmed.">>
    /\ currentAgent = "PatientAdmissionAgent"

\* C12 (SpecFault): no step, of any handler, changes or removes an audit entry:
\* the log after a step has the log before it as a prefix.
C12_AuditAppendOnly ==
    [][/\ Len(auditLogs') >= Len(auditLogs)
       /\ SubSeq(auditLogs', 1, Len(auditLogs)) = auditLogs]_vars

\* C12 witness: entries of two turns are in the log, the sidebar is open and an
\* agent was selected in it.
C12_Witness ==
    /\ Len(auditLogs) >= 3
    /\ auditLogs[1] # auditLogs[2]
    /\ isSidebarOpen
    /\ currentAgent = "AppointmentSchedulingAgent"

\* The step in which turn k ends in the catch of handleSend.
TurnCaught(k) == turns[k].pc # "done" /\ turns'[k].pc = "done" /\ turns'[k].error

\* C16 (SpecFault): when handleSend's catch is entered the controller appends one
\* generic-error message of the router, appends no audit entry, sets the
\* indicator to the router and clears the in-flight flag.
C16_CatchAppendsErrorAndResets ==
    [][\A k \in 1..Len(turns) :
           TurnCaught(k) =>
               /\ messages' = Append(messages,
                      [role |-> "model", sender |-> "Central Manager",
                       text |-> <<"I apologize, but I encountered a secure connection error. Please try again.">>,
                       documentData |-> Undefined, groundingSources |-> Undefined])
               /\ messages[2 * k].role = "user"
               /\ auditLogs' = auditLogs
               /\ currentAgent' = "Central Manager"
               /\ ~isLoading'
               /\ input' = input]_vars

\* C16 witness: the first turn failed after its delegation was logged, and a
\* second turn was accepted afterwards.
C16_Witness ==
    /\ Len(turns) >= 2
    /\ turns[1].error
    /\ turns[1].delegation.def
    /\ Len(auditLogs) = 1
    /\ messages[3].sender = "Central Manager"
    /\ turns[2].pc = "classify"

\* The tools of the generation request, as a set.
C13_ToolSet == {probe.request.v.tools[i] : i \in 1..Len(probe.request.v.tools)}

\* C13 (SpecService): the tool set of the one generation request is fixed by the
\* agent alone: admission and billing get the document tool, scheduling the
\* search, pharmacy both; any other identifier, the router's included, gets the
\* generic persona and no tool.
C13_DispatchTable ==
    RunDone =>
        /\ Len(probe.request.v.tools) = Cardinality(C13_ToolSet)
        /\ C13_ToolSet =
               CASE probe.agent = "PatientAdmissionAgent" ->
                        {[functionDeclarations |-> <<"generate_document">>]}
                 [] probe.agent = "AppointmentSchedulingAgent" ->
                        {[googleSearch |-> TRUE]}
                 [] probe.agent = "PharmacyManagementAgent" ->
                        {[googleSearch |-> TRUE], [functionDeclarations |-> <<"generate_document">>]}
                 [] probe.agent = "BillingAndFinanceAgent" ->
                        {[functionDeclarations |-> <<"generate_document">>]}
                 [] OTHER -> {}
        /\ (probe.request.v.systemInstruction = "You are a helpful hospital assistant.")
               <=> (probe.agent \notin {"PatientAdmissionAgent", "AppointmentSchedulingAgent",
                                        "PharmacyManagementAgent", "BillingAndFinanceAgent"})

\* C13 witness: run was called as the router with a two-message history and the
\* request carried no tool.
C13_Witness ==
    /\ RunDone
    /\ probe.agent = "Central Manager"
    /\ probe.history # HistoryContext(<<WelcomeMessage>>)
    /\ probe.request.v.tools = << >>
    /\ probe.request.v.systemInstruction = "You are a helpful hospital assistant."

\* The response carries at least one function call and the first one is
\* generate_document.
C14_FirstCallIsDocument ==
    /\ ~probe.backend.raises
    /\ probe.backend.response.functionCalls.def
    /\ Len(probe.backend.response.functionCalls.v) > 0
    /\ probe.backend.response.functionCalls.v[1].name = "generate_document"

\* C14 as stated (SpecService): run returns a document if and only if the
\* response has a function call and the first one is generate_document.
C14_DocumentIffFirstCall ==
    RunDone => (probe.out.v.document.def <=> C14_FirstCallIsDocument)

\* C14 amended (SpecService): run returns a document if and only if the first
\* function call is generate_document and carries arguments; the document is
\* built from that first call alone, whatever calls follow it.
C14_DocumentIffFirstCallWithArgs ==
    RunDone =>
        /\ probe.out.v.document.def <=>
               (C14_FirstCallIsDocument /\ probe.backend.response.functionCalls.v[1].args.def)
        /\ probe.out.v.document.def =>
               LET a == probe.backend.response.functionCalls.v[1].args.v IN
               probe.out.v.document.v =
                   [type |-> a.docType, title |-> a.title,
                    content |-> a.fields, footer |-> a.complianceNote]

\* C14 witness: generate_document comes second, after another call, and run
\* returned no document.
C14_Witness ==
    /\ RunInterpreted
    /\ probe.backend.response.functionCalls.def
    /\ Len(probe.backend.response.functionCalls.v) >= 2
    /\ probe.backend.response.functionCalls.v[1].name = "lookup_patient"
    /\ probe.backend.response.functionCalls.v[2].name = "generate_document"
    /\ ~probe.out.v.document.def

\* The response carries no function call: the list is missing or empty.
C15_NoToolCall ==
    /\ RunInterpreted
    /\ \/ ~probe.backend.response.functionCalls.def
       \/ Len(probe.backend.response.functionCalls.v) = 0

\* C15 (SpecService): without a tool call run returns no document, and its text
\* is the backend's text verbatim if that is non-empty, else "Processed request.".
C15_PlainTextOrFallback ==
    C15_NoToolCall =>
        /\ ~probe.out.v.document.def
        /\ probe.out.v.text =
               IF probe.backend.response.text.def /\ probe.backend.response.text.v # << >>
               THEN probe.backend.response.text.v
               ELSE <<"Processed request.">>

\* C15 witness: an empty function-call list with an empty text gave the fallback line.
C15_Witness ==
    /\ C15_NoToolCall
    /\ probe.backend.response.functionCalls.def
    /\ probe.backend.response.text.def
    /\ probe.backend.response.text.v = << >>
    /\ probe.out.v.text = <<"Processed request.">>

\* C17 (Spec): each turn issues one classify call and then, only once that call
\* has returned and the delegation entry is in the log, one execute call for the
\* agent it returned; a raised call is not issued again.
C17_OneCallPerPhase ==
    \A k \in 1..Len(turns) :
        /\ turns[k].issued =
               IF turns[k].pc \in {"classify", "delay"}
               THEN <<"classify">> ELSE <<"classify", "execute">>
        /\ turns[k].pc = "classify" => ~turns[k].routerBackend.def
        /\ turns[k].pc \in {"classify", "delay"} => ~turns[k].call.def
        /\ turns[k].pc \in {"execute", "done"} =>
               /\ turns[k].routerBackend.def
               /\ turns[k].delegation.def
               /\ turns[k].call.def
               /\ turns[k].call.v.agent = turns[k].delegation.v.agent
               /\ Len(auditLogs) >= 2 * k - 1
               /\ auditLogs[2 * k - 1].agent = "Central Manager"
               /\ auditLogs[2 * k - 1].action =
                      <<"Delegated to ", ToStr(turns[k].delegation.v.agent)>>
        /\ turns[k].pc = "execute" => (~turns[k].execBackend.def /\ Len(auditLogs) = 2 * k - 1)

\* C17 witness: both calls of a turn raised and each was issued once.
C17_Witness ==
    /\ Len(turns) >= 1
    /\ turns[1].pc = "done"
    /\ turns[1].routerBackend.v.raises
    /\ turns[1].execBackend.v.raises
    /\ turns[1].issued = <<"classify", "execute">>

\* C18 (Spec): a send refused at the guard changes nothing, and it is not kept
\* for later: a turn, with its user message and its classify call, only ever
\* starts in a step taken from a state whose guard accepts the send.
C18_RejectedSendNoEffect ==
    [][/\ handleSendRejected =>
              /\ messages' = messages
              /\ auditLogs' = auditLogs
              /\ currentAgent' = currentAgent
              /\ isLoading' = isLoading
              /\ input' = input
              /\ turns' = turns
       /\ Len(turns') > Len(turns) => SendAccepted
       /\ ~SendAccepted =>
              /\ Len(turns') = Len(turns)
              /\ \A i \in 1..Len(messages) : messages'[i] = messages[i]
              /\ \A i \in (Len(messages) + 1)..Len(messages') : messages'[i].role # "user"
              /\ \A k \in 1..Len(turns) :
                     turns'[k].issued \in {turns[k].issued, Append(turns[k].issued, "execute")}]_vars

\* C18 witness: after a completed turn the input holds blanks only, so a send is
\* refused although no turn is in flight.
C18_Witness ==
    /\ Len(turns) >= 1
    /\ InFlight = {}
    /\ input = <<" ", " ">>
    /\ ~SendAccepted
    /\ ~isLoading

\* C19 (SpecLive): every accepted turn sets the in-flight flag and, the backend
\* calls returning, runs to its end, where the flag is cleared; the flag is
\* cleared by nothing but the end of the turn (so it stays set for ever if a
\* call never returns), and no turn is accepted while it is set.
C19_TurnRunsToCompletion ==
    /\ isLoading ~> ~isLoading
    /\ (InFlight # {}) ~> (InFlight = {})
    /\ [](isLoading => ~SendAccepted)
    /\ [][/\ Len(turns') > Len(turns) => (~isLoading /\ isLoading')
          /\ (isLoading /\ ~isLoading') => \E k \in 1..Len(turns) : TurnEnds(k)]_vars

\* C19 witness: a turn whose two backend calls raised has ended and the flag is clear.
C19_Witness ==
    /\ Len(turns) >= 1
    /\ turns[Len(turns)].pc = "done"
    /\ turns[Len(turns)].routerBackend.v.raises
    /\ turns[Len(turns)].execBackend.v.raises
    /\ ~isLoading

\* The first n messages as 'sender: text' lines joined by line feeds, oldest first.
RECURSIVE C20_Lines(_, _)
C20_Lines(msgs, n) ==
    IF n = 0 THEN << >>
    ELSE C20_Lines(msgs, n - 1) \o (IF n > 1 THEN <<"\n">> ELSE << >>)
             \o <<msgs[n].sender, ": ">> \o msgs[n].text

\* C20 (Spec): the k-th turn's user message is message 2k; the history passed
\* to executeAgentTask in that turn is the rendering of messages 1..2k-1 (the
\* welcome message and every earlier request and reply) and goes into the
\* generation request unchanged; the turn's own user message is not in it.
C20_HistoryIsPrecedingMessages ==
    \A k \in 1..Len(turns) :
        /\ Len(messages) >= 2 * k
        /\ messages[2 * k].role = "user"
        /\ messages[2 * k].text = turns[k].text
        /\ turns[k].call.def =>
               /\ turns[k].call.v.history = C20_Lines(messages, 2 * k - 1)
               /\ turns[k].call.v.history # C20_Lines(messages, 2 * k)
               /\ GenerationRequest(turns[k].call.v.agent, turns[k].call.v.userQuery,
                                    turns[k].call.v.history).contents
                      = <<"Context: ">> \o C20_Lines(messages, 2 * k - 1)
                            \o <<"\n\nCurrent Request: ">> \o turns[k].text

\* C20 witness: the second turn's execute call was issued, with three messages
\* (welcome, first request, first reply) before its user message.
C20_Witness ==
    /\ Len(turns) >= 2
    /\ turns[2].call.def
    /\ Len(turns[2].messages) = 3
    /\ messages[2].role = "user"
    /\ messages[3].role = "model"
\* The message that closes turn k: the executor's reply, or the controller's
\* generic error when handleSend's catch ended the turn.
C21_ClosingMessage(k) ==
    IF turns[k].error
    THEN [role |-> "model", sender |-> ORCHESTRATOR, text |-> GenericErrorText,
          documentData |-> Undefined, groundingSources |-> Undefined]
    ELSE [role |-> "model", sender |-> turns[k].delegation.v.agent,
          text |-> turns[k].response.v.text,
          documentData |-> turns[k].response.v.document,
          groundingSources |-> turns[k].response.v.groundingSources]

\* C21 (SpecFault): no step removes, moves or changes a message, a step appends
\* at most one; the sequence is the welcome message followed, turn by turn, by
\* the user's message and, once the turn is done, its one agent-role message
\* (the reply or the generic error), so N completed turns leave 1 + 2N messages.
C21_MessagesAppendOnly ==
    /\ [](/\ messages[1] = WelcomeMessage
          /\ Len(messages) = 1 + Len(turns) + NumDone
          /\ \A k \in 1..Len(turns) :
                 /\ messages[2 * k] =
                        [role |-> "user", sender |-> "User", text |-> turns[k].text,
                         documentData |-> Undefined, groundingSources |-> Undefined]
                 /\ turns[k].pc = "done" => messages[2 * k + 1] = C21_ClosingMessage(k))
    /\ [][/\ Len(messages') \in {Len(messages), Len(messages) + 1}
          /\ \A i \in 1..Len(messages) : messages'[i] = messages[i]
          /\ Len(messages') > Len(messages) =>
                 \/ Len(turns') = Len(turns) + 1
                 \/ \E k \in 1..Len(turns) : turns[k].pc # "done" /\ turns'[k].pc = "done"]_vars

\* C21 witness: two turns are done, the first closed by the executor's reply, the
\* second by the generic error, and five messages stand in that order.
C21_Witness ==
    /\ Len(turns) = 2
    /\ InFlight = {}
    /\ ~turns[1].error
    /\ turns[2].error
    /\ Len(messages) = 5
    /\ messages[3] = C21_ClosingMessage(1)
    /\ messages[5].text = GenericErrorText
\* C22 (Spec): in every turn the identifier handed to executeAgentTask, the
\* sender of the reply and the agent of the execution entry are the agent that
\* orchestrateRequest returned for the turn's text, whatever the indicator shows;
\* a click on the sidebar changes the indicator and nothing of a turn.
C22_ExecutorIsRoutersChoice ==
    /\ [](\A k \in 1..Len(turns) :
              /\ turns[k].delegation.def =>
                     turns[k].delegation.v =
                         orchestrateRequest(turns[k].text, turns[k].routerBackend.v)
              /\ turns[k].call.def =>
                     turns[k].call.v.agent = turns[k].delegation.v.agent
              /\ turns[k].pc = "done" =>
                     /\ turns[k].response.v =
                            executeAgentTask(turns[k].delegation.v.agent, turns[k].text,
                                             turns[k].call.v.history, turns[k].execBackend.v)
                     /\ messages[2 * k + 1].sender = turns[k].delegation.v.agent
                     /\ auditLogs[2 * k].agent = turns[k].delegation.v.agent)
    /\ [][(\E a \in AgentType, n \in BOOLEAN : onSelectAgent(a, n)) =>
              (turns' = turns /\ messages' = messages /\ auditLogs' = auditLogs)]_vars

\* C22 witness: the executor is pending as the billing agent the router chose
\* while the indicator shows the pharmacy agent, which the user selected after
\* the delay had set it to billing.
C22_Witness ==
    /\ Len(turns) = 2
    /\ turns[1].pc = "done"
    /\ turns[2].pc = "execute"
    /\ turns[2].delegation.v.agent = BILLING
    /\ turns[2].call.v.agent = BILLING
    /\ currentAgent = PHARMACY
    /\ messages[3].sender = turns[1].delegation.v.agent
\* C23 (Spec): once the router has returned for turn k, entry 2k-1 of the log is
\* the router's 'Delegated to <agent>' naming the agent it returned; once the
\* turn is done, entry 2k belongs to that agent and reads 'Generated <type>'
\* exactly when the reply message carries a document, whose type it names, and
\* 'Responded to query' exactly when the reply carries none.
C23_AuditEntriesDescribeTurn ==
    \A k \in 1..Len(turns) :
        /\ turns[k].pc = "classify" => Len(auditLogs) = 2 * k - 2
        /\ turns[k].pc \in {"delay", "execute"} => Len(auditLogs) = 2 * k - 1
        /\ turns[k].pc # "classify" =>
               /\ auditLogs[2 * k - 1].agent = ORCHESTRATOR
               /\ auditLogs[2 * k - 1].action =
                      <<"Delegated to ",
                        ToStr(orchestrateRequest(turns[k].text, turns[k].routerBackend.v).agent)>>
        /\ turns[k].pc = "done" =>
               LET entry == auditLogs[2 * k]
                   reply == messages[2 * k + 1]
               IN
               /\ entry.agent = orchestrateRequest(turns[k].text, turns[k].routerBackend.v).agent
               /\ entry.agent = reply.sender
               /\ entry.action[1] \in {"Generated ", "Responded to query"}
               /\ (entry.action[1] = "Generated ") <=> reply.documentData.def
               /\ (entry.action = <<"Responded to query">>) <=> ~reply.documentData.def
               /\ reply.documentData.def =>
                      entry.action = <<"Generated ", ToStr(reply.documentData.v.type)>>

\* C23 witness: of two completed turns one replied with an invoice and one with
\* plain text, and the log holds the four entries that say so.
C23_Witness ==
    /\ Len(turns) = 2
    /\ InFlight = {}
    /\ messages[3].documentData.def
    /\ ~messages[5].documentData.def
    /\ auditLogs[1].action = <<"Delegated to ", BILLING>>
    /\ auditLogs[2].action = <<"Generated ", "INVOICE">>
    /\ auditLogs[4].action = <<"Responded to query">>
\* The three values of AuditLogEntry.status.
C24_Statuses == {"PENDING", "SUCCESS", "DENIED"}

\* C24 (Spec): every entry of the log has status SUCCESS, never PENDING or
\* DENIED; so have the delegation entry of a turn whose classify call raised
\* (the fallback to admission) and the execution entry of a turn whose execute
\* call raised, which reads 'Responded to query' beside the apology.
C24_AllEntriesSuccess ==
    /\ \A i \in 1..Len(auditLogs) :
           /\ auditLogs[i].status \in C24_Statuses
           /\ auditLogs[i].status = "SUCCESS"
    /\ \A k \in 1..Len(turns) :
           /\ (turns[k].routerBackend.def /\ turns[k].routerBackend.v.raises) =>
                  auditLogs[2 * k - 1] =
                      [agent |-> ORCHESTRATOR, action |-> <<"Delegated to ", ADMISSION>>,
                       status |-> "SUCCESS"]
           /\ (turns[k].execBackend.def /\ turns[k].execBackend.v.raises) =>
                  /\ messages[2 * k + 1].text = SystemErrorText
                  /\ auditLogs[2 * k] =
                         [agent |-> turns[k].delegation.v.agent,
                          action |-> <<"Responded to query">>, status |-> "SUCCESS"]

\* C24 witness: in one turn both backend calls raised, and its two entries are
\* in the log.
C24_Witness ==
    /\ Len(turns) >= 1
    /\ turns[1].pc = "done"
    /\ turns[1].routerBackend.v.raises
    /\ turns[1].execBackend.v.raises
    /\ Len(auditLogs) >= 2
    /\ auditLogs[2].status = "SUCCESS"
\* C25 (SpecService): executeAgentTask returns a document only when the tools
\* bound to the agent include the document tool; for the scheduling agent and
\* for an identifier that matches no case it returns none, whatever function
\* calls the response holds.
C25_DocumentOnlyWithDocumentTool ==
    RunDone =>
        (probe.out.v.document.def =>
             \E i \in 1..Len(ToolsFor(probe.agent)) :
                 ToolsFor(probe.agent)[i] = GenerateDocumentTool)
====
